---- MODULE Spec2Model ----
(***************************************************************************)
(* A model of photo_resize.py: the target-size search of one image         *)
(* (exif_safe, try_lossless_then_lossy, shrink_to_target) and the batch    *)
(* run of the application (App.start and its worker thread, process_one,   *)
(* and the handlers that edit the file list).                              *)
(*                                                                         *)
(* The codec (PIL's save) is the environment: every encode call either     *)
(* raises or returns a byte string of some length, chosen freely, so sizes *)
(* are not monotonic in quality, container or resolution.  A byte string   *)
(* is modelled by its length and by the container that produced it.        *)
(* One step of the model is one encode call (with the control flow that    *)
(* follows it up to the next call) or one pass through the head of the     *)
(* resize loop.                                                            *)
(*                                                                         *)
(* The arithmetic of the scale factor is exact: int(d * factor) is computed *)
(* over the rationals.  Python computes it in double precision; the two    *)
(* agree for every budget, length and side the model draws.                *)
(***************************************************************************)
EXTENDS Integers, Sequences, FiniteSets, TLC

\* ---------------------------------------------------------------- bounds
\* Encoded byte strings have a length in 1..MaxLen.
MaxLen == 3
\* The byte budget ranges over 0..MaxTarget.
MaxTarget == 2
\* The largest width or height of an input image.
MaxDim == 1200
\* The longest byte string the resize loop starts from, when the head of
\* the loop is checked on its own.
MaxScaleLen == 20
\* The file list holds at most MaxFiles paths.
MaxFiles == 2
\* Target sizes typed by the user range over 0..MaxHalf half-bytes.
MaxHalf == 3

\* ------------------------------------------------------ program constants
\* min_size=(640, 640)
MinW == 640
MinH == 640
\* for q in range(95, 59, -5)
QStart == 95
QStop == 59
QStep == 5

\* The format tags Image.format may carry; "NONE" is Python's None.
Formats == {"JPEG", "PNG", "WEBP", "BMP"}
NoFormat == "NONE"

\* Widths and heights of the inputs: at the floor, just above it, and large.
Dims == {MinW, MinW + 1, MaxDim}

\* An encode call raises (0) or returns a byte string of this length.
Raised == 0
Outcomes == 0..MaxLen

\* A byte string: its length and the container that encoded it.
\* NoBytes stands for an unbound name (b) or None (best).
NoBytes == [len |-> 0, fmt |-> "NONE"]
Bytes(n, f) == [len |-> n, fmt |-> f]
NoCall == [kind |-> "none", fmt |-> "NONE", q |-> 0, len |-> 0]

VARIABLES
    pc,            \* position in shrink_to_target / try_lossless_then_lossy
    img_format,    \* img.format
    alpha,         \* has_alpha(img)
    target_bytes,  \* the budget
    w, h,          \* cur.size
    b,             \* try_lossless_then_lossy's b
    qi,            \* index of q in the quality ladder
    last, ext,     \* shrink_to_target's last and ext
    best,          \* shrink_to_target's best
    result,        \* the (bytes, ext) pair returned
    \* history of the run, read by the properties only
    nEnc,          \* number of encode calls made
    nResize,       \* number of resizes made
    call,          \* the most recent encode call and its outcome
    firstLen,      \* length of the original-format attempt (0: it raised)
    ladMin,        \* smallest length the current ladder produced (0: none)
    minAll,        \* smallest length any encode of the run produced (0: none)
    \* the application
    files,         \* self.files
    stop_flag,     \* self.stop_flag
    btn_start,     \* state of the Start button
    btn_stop,      \* state of the Stop button
    wpc,           \* position of the worker thread in work()
    target_mb,     \* target of start(), as work() hands it to process_one
    it,            \* the list iterator of "for p in self.files": items taken
    src,           \* the loop variable p of work(), process_one's src
    outcomes,      \* the OK / ERR lines this run has written, in order
    shown,         \* the last message box or end-of-run line shown
    \* history of the batch, read by the properties only
    snapshot       \* self.files as it was when the run started

imgVars == <<pc, img_format, alpha, target_bytes, w, h, b, qi, last, ext,
             best, result, nEnc, nResize, call, firstLen, ladMin, minAll>>

appVars == <<files, stop_flag, btn_start, btn_stop, wpc, target_mb, it, src,
             outcomes, shown, snapshot>>

vars == <<pc, img_format, alpha, target_bytes, w, h, b, qi, last, ext,
          best, result, nEnc, nResize, call, firstLen, ladMin, minAll,
          files, stop_flag, btn_start, btn_stop, wpc, target_mb, it, src,
          outcomes, shown, snapshot>>

\* ---------------------------------------------------------------- helpers
Max(x, y) == IF x >= y THEN x ELSE y
Min(x, y) == IF x <= y THEN x ELSE y
\* minimum of lengths where 0 stands for "none yet"
MinLen(m, n) == IF m = 0 THEN n ELSE IF n = 0 THEN m ELSE Min(m, n)

\* Python's range(start, stop, -step) for a descending range, as a sequence.
RECURSIVE PyRangeDown(_, _, _)
PyRangeDown(start, stop, step) ==
    IF start <= stop THEN << >>
    ELSE <<start>> \o PyRangeDown(start - step, stop, step)

\* A slip of the range: range(95, 60, -5), which leaves out 60.
LadderShort == PyRangeDown(QStart, QStop + 1, QStep)
\* range(95, 59, -5)
Ladder == PyRangeDown(QStart, QStop, QStep)

\* A slip of the comparison: len(b) < target_bytes.
FitsLt(n, target) == n < target
\* len(b) <= target_bytes
Fits(n, target) == n <= target

\* A slip of the fallback: an unknown format is encoded as JPEG.
OrigContainerJpeg(f) ==
    IF f = "PNG" THEN "PNG" ELSE IF f = "WEBP" THEN "WEBP" ELSE "JPEG"
\* The container the original-format attempt encodes to (lines 81-97).
OrigContainer(f) ==
    IF f \in {"JPEG", "JPG"} THEN "JPEG"
    ELSE IF f = "PNG" THEN "PNG"
    ELSE IF f = "WEBP" THEN "WEBP"
    ELSE f

\* f".{fmt.lower()}"
LowerExt(f) ==
    CASE f = "BMP" -> ".bmp"
      [] f = "JPEG" -> ".jpeg"
      [] f = "PNG" -> ".png"
      [] f = "WEBP" -> ".webp"
      [] OTHER -> ".none"

\* A slip of the extension: the native f".{fmt.lower()}" for every format.
OrigExtNative(f) == LowerExt(f)
\* The extension the original-format attempt returns (lines 84, 88, 93, 100).
OrigExt(f) ==
    IF f \in {"JPEG", "JPG"} THEN ".jpg"
    ELSE IF f = "PNG" THEN ".png"
    ELSE IF f = "WEBP" THEN ".webp"
    ELSE LowerExt(f)

\* prefer_webp = transparent; the container of the quality ladder.
LossyFmt(transparent) == IF transparent THEN "WEBP" ELSE "JPEG"
LossyExt(transparent) == IF transparent THEN ".webp" ELSE ".jpg"

\* The extension that names a container.
ExtOf(f) ==
    CASE f = "JPEG" -> ".jpg"
      [] f = "PNG" -> ".png"
      [] f = "WEBP" -> ".webp"
      [] OTHER -> LowerExt(f)

\* ------------------------------------------------------- Resolution Scaler
\* x * c as <<high, low>> digits in base 10000 (the products of the scale
\* computation exceed 32 bits).
BigMul(x, c) ==
    LET p == (x % 10000) * c
    IN  <<(x \div 10000) * c + (p \div 10000), p % 10000>>
BigLeq(x, y) == x[1] < y[1] \/ (x[1] = y[1] /\ x[2] <= y[2])

\* factor = sqrt(target_bytes / max(1, len(last))) * 0.98 reaches the cap 0.95:
\* 0.9604 * target / len >= 0.9025
FactorCappedNever(target, len) == FALSE
FactorCapped(target, len) == 9604 * target >= 9025 * Max(1, len)
\* if factor <= 0.5: 0.9604 * target / len <= 0.25
FactorLow(target, len) == 9604 * target <= 2500 * Max(1, len)

\* int(d * sqrt(target / max(1, len)) * 0.98): the largest n with
\* n^2 * 2500 * len <= d^2 * 2401 * target.
IntSqrtScaled(d, target, len) ==
    LET lm == Max(1, len)
        Below(n) == BigLeq(BigMul(n * n, 2500 * lm), BigMul(d * d, 2401 * target))
    IN  CHOOSE n \in 0..d : Below(n) /\ ~Below(n + 1)

\* The square of factor after lines 152-156, as a fraction:
\* 0.6^2, 0.95^2 or 0.9604 * target / max(1, len).
FactorSq(target, len) ==
    IF FactorLow(target, len) THEN [num |-> 9, den |-> 25]
    ELSE IF FactorCapped(target, len) THEN [num |-> 361, den |-> 400]
    ELSE [num |-> 2401 * target, den |-> 2500 * Max(1, len)]

\* int(d * factor), with factor as lines 152-156 compute it.
ScaledInt(d, target, len) ==
    IF FactorLow(target, len) THEN (d * 6) \div 10
    ELSE IF FactorCapped(target, len) THEN (d * 95) \div 100
    ELSE IntSqrtScaled(d, target, len)

\* A slip of line 158: the sides are not clamped to min_size.
NewSizeUnclamped(cw, ch, target, len) ==
    <<ScaledInt(cw, target, len), ScaledInt(ch, target, len)>>
\* new_w, new_h of lines 158-161.
NewSize(cw, ch, target, len) ==
    LET nw == Max(MinW, ScaledInt(cw, target, len))
        nh == Max(MinH, ScaledInt(ch, target, len))
    IN  IF nw >= cw \/ nh >= ch
        THEN <<(cw * 9) \div 10, (ch * 9) \div 10>>
        ELSE <<nw, nh>>

\* A slip of the floor check: and for or.
FloorReachedBoth(cw, ch) == cw <= MinW /\ ch <= MinH
\* if w <= min_size[0] or h <= min_size[1]
FloorReached(cw, ch) == cw <= MinW \/ ch <= MinH

\* A slip of the resize: its result is dropped (resize returns a new image).
ResizeDiscarded(cw, ch, nw, nh) == <<cw, ch>>
\* cur = cur.resize((new_w, new_h), Image.LANCZOS): the size of the new cur.
Resized(cw, ch, nw, nh) == <<nw, nh>>

\* A slip of the handler: a failed encode drops what was recorded.
OnEncodeReset(ok, new, old) == IF ok THEN new ELSE NoBytes
\* try: b = save(...) / except Exception: continue -- a failed encode leaves
\* the name (b, best) as it was.
OnEncode(ok, new, old) == IF ok THEN new ELSE old

\* best = cand if best is None or len(cand) < len(best)
BetterOf(bst, cand) ==
    IF bst = NoBytes \/ cand.len < bst.len THEN cand ELSE bst

\* last = best if best else last
KeepBest(bst, lst) == IF bst # NoBytes THEN bst ELSE lst

\* ------------------------------------------------------------ application
\* Paths the file dialogs can hand back, and the lower-cased suffix of each.
Paths == {"a.jpg", "b.png", "notes.txt"}
SuffixLower(path) ==
    CASE path = "a.jpg" -> ".jpg"
      [] path = "b.png" -> ".png"
      [] OTHER -> ".txt"

SUPPORTED_EXTS ==
    {".jpg", ".jpeg", ".png", ".webp", ".bmp", ".tif", ".tiff", ".gif"}

\* if path.suffix.lower() in SUPPORTED_EXTS
Supported(path) == SuffixLower(path) \in SUPPORTED_EXTS

\* What askopenfilenames can return: up to two paths (none on Cancel).
Selections ==
    {<<>>} \cup {<<x>> : x \in Paths} \cup {<<x, y>> : x \in Paths, y \in Paths}

\* What askdirectory can return ("" on Cancel) and what rglob finds there.
Folders == {"", "pics", "scans"}
FolderContents(folder) ==
    CASE folder = "pics" -> <<"a.jpg", "notes.txt", "b.png">>
      [] folder = "scans" -> <<"b.png">>
      [] OTHER -> <<>>

\* [p for p in folder.rglob("*") if p.suffix.lower() in SUPPORTED_EXTS ...]
list_images_in_folder(folder) == SelectSeq(FolderContents(folder), Supported)

\* The text of the target field, by what float() makes of it: not a number
\* (float raises), "nan", or k half-bytes in MB (k * 2^-21, exact in binary).
NotANumber == [kind |-> "text", half |-> 0]
NaN == [kind |-> "nan", half |-> 0]
Num(k) == [kind |-> "num", half |-> k]
NoTarget == [kind |-> "none", half |-> 0]
TargetTexts == {NotANumber, NaN} \cup {Num(k) : k \in 0..MaxHalf}

\* target = float(...); if target <= 0: raise ValueError -- every comparison
\* with nan is false.
TargetValid(t) ==
    /\ t.kind # "text"
    /\ ~(t.kind = "num" /\ t.half <= 0)

\* int(target_mb * 1024 * 1024) raises for nan.
TargetBytesRaises(t) == t.kind = "nan"
\* int(target_mb * 1024 * 1024): int truncates.
TargetBytes(t) == t.half \div 2

\* A slip of the loop: the stop flag is not looked at.
CancelledNever(flag) == FALSE
\* if self.stop_flag.is_set(): break
Cancelled(flag) == flag

\* worker.is_alive()
Alive == wpc \in {"head", "processing", "ending", "reporting"}

\* App.__init__
AppInit ==
    /\ files = <<>>
    /\ stop_flag = FALSE
    /\ btn_start = "normal"
    /\ btn_stop = "disabled"
    /\ wpc = "idle"
    /\ target_mb = NoTarget
    /\ it = 0
    /\ src = ""
    /\ outcomes = <<>>
    /\ shown = ""
    /\ snapshot = <<>>

\* ------------------------------------------------------------------ state
\* try_lossless_then_lossy(img, img.format or "JPEG", ...); fmt = fmt.upper()
fmt == IF img_format = NoFormat THEN "JPEG" ELSE img_format

Init ==
    /\ pc = "exif"
    /\ img_format \in Formats \cup {NoFormat}
    /\ alpha \in BOOLEAN
    /\ target_bytes \in 0..MaxTarget
    /\ w \in Dims
    /\ h \in Dims
    /\ b = NoBytes
    /\ qi = 0
    /\ last = NoBytes
    /\ ext = ""
    /\ best = NoBytes
    /\ result = <<NoBytes, "">>
    /\ nEnc = 0
    /\ nResize = 0
    /\ call = NoCall
    /\ firstLen = 0
    /\ ladMin = 0
    /\ minAll = 0
    /\ AppInit

\* img = exif_safe(img)
\* ImageOps.exif_transpose returns a transposed copy (a copy carries no
\* format, and a rotation by 90 degrees swaps the sides) or raises, and then
\* the image is kept as it is.
exif_safe ==
    /\ pc = "exif"
    /\ \E copied \in BOOLEAN, swapped \in BOOLEAN :
         /\ img_format' = IF copied THEN NoFormat ELSE img_format
         /\ w' = IF copied /\ swapped THEN h ELSE w
         /\ h' = IF copied /\ swapped THEN w ELSE h
    /\ pc' = "orig"
    /\ UNCHANGED appVars
    /\ UNCHANGED <<alpha, target_bytes, b, qi, last, ext, best, result,
                   nEnc, nResize, call, firstLen, ladMin, minAll>>

\* quality= of the original-format attempt: JPEG 95, lossless WEBP 100.
OrigQuality(f) ==
    IF f \in {"JPEG", "JPG"} THEN QStart ELSE IF f = "WEBP" THEN 100 ELSE 0

\* try_lossless_then_lossy, lines 80-102: the attempt in the original format.
\* An exception is swallowed and leaves b unbound.
OrigAttempt ==
    /\ pc = "orig"
    /\ \E o \in Outcomes :
         LET cand == Bytes(o, OrigContainer(fmt))
             ok == o # Raised
             \* return b, ext (lines 83-84, 87-88, 92-93, 99-100)
             returned == ok /\ Fits(o, target_bytes)
             \* shrink_to_target, lines 139-140
             accepted == returned /\ Fits(cand.len, target_bytes)
         IN  /\ b' = IF ok THEN cand ELSE b
             /\ pc' = IF accepted THEN "done"
                      ELSE IF returned THEN "loop" ELSE "ladder"
             /\ qi' = IF returned THEN qi ELSE 1
             /\ ext' = IF returned THEN OrigExt(fmt) ELSE ext
             /\ result' = IF accepted THEN <<cand, OrigExt(fmt)>> ELSE result
             /\ last' = IF returned /\ ~accepted THEN cand ELSE last
             /\ call' = [kind |-> "orig", fmt |-> OrigContainer(fmt),
                         q |-> OrigQuality(fmt), len |-> o]
             /\ firstLen' = o
             /\ minAll' = MinLen(minAll, o)
    /\ nEnc' = nEnc + 1
    /\ UNCHANGED appVars
    /\ UNCHANGED <<img_format, alpha, target_bytes, w, h, best,
                   nResize, ladMin>>

\* try_lossless_then_lossy, lines 107-129: one quality level of the ladder
\* at full resolution, and after the last level the return of line 129 with
\* shrink_to_target's lines 139-143.
LadderAttempt ==
    /\ pc = "ladder"
    /\ \E o \in Outcomes :
         LET q == Ladder[qi]
             cand == Bytes(o, LossyFmt(alpha))
             ok == o # Raised
             hit == ok /\ Fits(o, target_bytes)
             nb == OnEncode(ok, cand, b)
             exhausted == ~hit /\ qi = Len(Ladder)
             \* line 129 reads b, which no encode has bound
             unbound == exhausted /\ nb = NoBytes
             returned == hit \/ (exhausted /\ ~unbound)
             accepted == returned /\ Fits(nb.len, target_bytes)
         IN  /\ b' = nb
             /\ pc' = IF unbound THEN "raised"
                      ELSE IF accepted THEN "done"
                      ELSE IF returned THEN "loop" ELSE "ladder"
             /\ qi' = IF returned \/ unbound THEN qi ELSE qi + 1
             /\ ext' = IF returned THEN LossyExt(alpha) ELSE ext
             /\ result' = IF accepted THEN <<nb, LossyExt(alpha)>> ELSE result
             /\ last' = IF returned /\ ~accepted THEN nb ELSE last
             /\ call' = [kind |-> "ladder", fmt |-> LossyFmt(alpha),
                         q |-> q, len |-> o]
             /\ ladMin' = MinLen(ladMin, o)
             /\ minAll' = MinLen(minAll, o)
    /\ nEnc' = nEnc + 1
    /\ UNCHANGED appVars
    /\ UNCHANGED <<img_format, alpha, target_bytes, w, h, best,
                   nResize, firstLen>>

\* shrink_to_target, lines 146-149: the floor is reached, return last, ext.
FloorReturn ==
    /\ pc = "loop"
    /\ FloorReached(w, h)
    /\ pc' = "done"
    /\ result' = <<last, ext>>
    /\ UNCHANGED appVars
    /\ UNCHANGED <<img_format, alpha, target_bytes, w, h, b, qi, last,
                   ext, best, nEnc, nResize, call, firstLen, ladMin, minAll>>

\* shrink_to_target, lines 151-163 (and best = None of lines 166, 179).
ResizeStep ==
    /\ pc = "loop"
    /\ ~FloorReached(w, h)
    /\ LET ns == NewSize(w, h, target_bytes, last.len)
           cur == Resized(w, h, ns[1], ns[2])
       IN  /\ w' = cur[1]
           /\ h' = cur[2]
    /\ pc' = "rladder"
    /\ qi' = 1
    /\ best' = NoBytes
    /\ nResize' = nResize + 1
    /\ ladMin' = 0
    /\ UNCHANGED appVars
    /\ UNCHANGED <<img_format, alpha, target_bytes, b, last, ext,
                   result, nEnc, call, firstLen, minAll>>

\* shrink_to_target, lines 165-193: one quality level of the ladder on the
\* resized image, and after the last level lines 176-177 (189-190) and 192.
ResizedAttempt ==
    /\ pc = "rladder"
    /\ \E o \in Outcomes :
         LET q == Ladder[qi]
             cand == Bytes(o, LossyFmt(alpha))
             ok == o # Raised
             nbest == OnEncode(ok, BetterOf(best, cand), best)
             hit == ok /\ Fits(o, target_bytes)
             exhausted == ~hit /\ qi = Len(Ladder)
             nlast == IF exhausted THEN KeepBest(nbest, last) ELSE last
             \* if last and len(last) <= target_bytes
             late == exhausted /\ nlast # NoBytes /\ Fits(nlast.len, target_bytes)
         IN  /\ best' = nbest
             /\ last' = nlast
             /\ ext' = IF exhausted THEN LossyExt(alpha) ELSE ext
             /\ pc' = IF hit \/ late THEN "done"
                      ELSE IF exhausted THEN "loop" ELSE "rladder"
             /\ qi' = IF hit \/ exhausted THEN qi ELSE qi + 1
             /\ result' = IF hit THEN <<cand, LossyExt(alpha)>>
                          ELSE IF late THEN <<nlast, LossyExt(alpha)>>
                          ELSE result
             /\ call' = [kind |-> "ladder", fmt |-> LossyFmt(alpha),
                         q |-> q, len |-> o]
             /\ ladMin' = MinLen(ladMin, o)
             /\ minAll' = MinLen(minAll, o)
    /\ nEnc' = nEnc + 1
    /\ UNCHANGED appVars
    /\ UNCHANGED <<img_format, alpha, target_bytes, w, h, b,
                   nResize, firstLen>>

Next ==
    \/ exif_safe
    \/ OrigAttempt
    \/ LadderAttempt
    \/ FloorReturn
    \/ ResizeStep
    \/ ResizedAttempt

Spec == Init /\ [][Next]_vars

\* The head of the resize loop on its own: the loop is entered with any
\* byte string longer than the budget, up to MaxScaleLen bytes.
ScaleInit ==
    /\ pc = "loop"
    /\ img_format \in {"JPEG", NoFormat}
    /\ alpha \in BOOLEAN
    /\ \E n \in 1..MaxScaleLen :
         /\ target_bytes \in 0..(n - 1)
         /\ last = Bytes(n, LossyFmt(alpha))
         /\ b = last
         /\ firstLen = n
         /\ minAll = n
    /\ w \in Dims
    /\ h \in Dims
    /\ qi = Len(Ladder)
    /\ ext = LossyExt(alpha)
    /\ best = NoBytes
    /\ result = <<NoBytes, "">>
    /\ nEnc = 1
    /\ nResize = 0
    /\ call = NoCall
    /\ ladMin = 0
    /\ AppInit

ScaleNext ==
    \/ FloorReturn
    \/ ResizeStep

ScaleSpec == ScaleInit /\ [][ScaleNext]_vars

\* ------------------------------------------------------------- batch run
\* The application on its own: the image variables rest, except that
\* process_one computes target_bytes.
BatchInit ==
    /\ pc = "exif"
    /\ img_format = NoFormat
    /\ alpha = FALSE
    /\ target_bytes = 0
    /\ w = MinW
    /\ h = MinH
    /\ b = NoBytes
    /\ qi = 0
    /\ last = NoBytes
    /\ ext = ""
    /\ best = NoBytes
    /\ result = <<NoBytes, "">>
    /\ nEnc = 0
    /\ nResize = 0
    /\ call = NoCall
    /\ firstLen = 0
    /\ ladMin = 0
    /\ minAll = 0
    /\ AppInit

\* The image variables process_one does not write.
imgRest == <<pc, img_format, alpha, w, h, b, qi, last, ext, best, result,
             nEnc, nResize, call, firstLen, ladMin, minAll>>

\* App.add_files: every selected path with a supported suffix is appended.
add_files ==
    /\ \E paths \in Selections :
         /\ files' = files \o SelectSeq(paths, Supported)
         /\ Len(files') <= MaxFiles
    /\ UNCHANGED <<stop_flag, btn_start, btn_stop, wpc, target_mb, it, src,
                   outcomes, shown, snapshot>>
    /\ UNCHANGED imgVars

\* App.add_folder: nothing on Cancel, else every image found is appended.
add_folder ==
    /\ \E folder \in Folders :
         /\ files' = IF folder = "" THEN files
                      ELSE files \o list_images_in_folder(folder)
         /\ Len(files') <= MaxFiles
    /\ UNCHANGED <<stop_flag, btn_start, btn_stop, wpc, target_mb, it, src,
                   outcomes, shown, snapshot>>
    /\ UNCHANGED imgVars

\* App.clear_list
clear_list ==
    /\ files' = <<>>
    /\ UNCHANGED <<stop_flag, btn_start, btn_stop, wpc, target_mb, it, src,
                   outcomes, shown, snapshot>>
    /\ UNCHANGED imgVars

\* App.start, a click on the enabled Start button with some text in the
\* target field: the three early returns, or the worker thread is started.
start ==
    /\ btn_start = "normal"
    /\ \E text \in TargetTexts :
         \/ /\ Alive
            /\ UNCHANGED appVars
         \/ /\ ~Alive
            /\ files = <<>>
            /\ shown' = "No files to process."
            /\ UNCHANGED <<files, stop_flag, btn_start, btn_stop, wpc,
                           target_mb, it, src, outcomes, snapshot>>
         \/ /\ ~Alive
            /\ files # <<>>
            /\ ~TargetValid(text)
            /\ shown' = "Target size must be a positive number (MB)."
            /\ UNCHANGED <<files, stop_flag, btn_start, btn_stop, wpc,
                           target_mb, it, src, outcomes, snapshot>>
         \/ /\ ~Alive
            /\ files # <<>>
            /\ TargetValid(text)
            /\ stop_flag' = FALSE
            /\ btn_start' = "disabled"
            /\ btn_stop' = "normal"
            /\ target_mb' = text
            /\ wpc' = "head"
            /\ it' = 0
            /\ src' = ""
            /\ outcomes' = <<>>
            /\ shown' = ""
            /\ snapshot' = files
            /\ UNCHANGED files
    /\ UNCHANGED imgVars

\* App.stop, a click on the enabled Stop button.
stop ==
    /\ btn_stop = "normal"
    /\ stop_flag' = TRUE
    /\ UNCHANGED <<files, btn_start, btn_stop, wpc, target_mb, it, src,
                   outcomes, shown, snapshot>>
    /\ UNCHANGED imgVars

\* work(), lines 327-330 and 196: the iterator over the live list hands out
\* its next item or ends the loop, the stop flag is read, and process_one is
\* entered; its first statement, outside its try, ends the thread if it
\* raises.
work_next ==
    /\ wpc = "head"
    /\ IF it >= Len(files) \/ Cancelled(stop_flag)
       THEN /\ wpc' = "ending"
            /\ it' = IF it >= Len(files) THEN it ELSE it + 1
            /\ UNCHANGED <<src, target_bytes>>
       ELSE /\ it' = it + 1
            /\ src' = files[it + 1]
            /\ IF TargetBytesRaises(target_mb)
               THEN /\ wpc' = "crashed"
                    /\ UNCHANGED target_bytes
               ELSE /\ wpc' = "processing"
                    /\ target_bytes' = TargetBytes(target_mb)
    /\ UNCHANGED <<files, stop_flag, btn_start, btn_stop, target_mb,
                   outcomes, shown, snapshot>>
    /\ UNCHANGED imgRest

\* process_one, lines 197-206, and lines 331-333 of work(): the image is
\* written (OK) or an exception is caught (ERR); the line is shown.
process_one ==
    /\ wpc = "processing"
    /\ \E kind \in {"OK", "ERR"} :
         outcomes' = Append(outcomes, [file |-> src, kind |-> kind])
    /\ wpc' = "head"
    /\ UNCHANGED <<files, stop_flag, btn_start, btn_stop, target_mb, it, src,
                   shown, snapshot>>
    /\ UNCHANGED imgVars

\* work(), lines 334-335
work_buttons ==
    /\ wpc = "ending"
    /\ btn_start' = "normal"
    /\ btn_stop' = "disabled"
    /\ wpc' = "reporting"
    /\ UNCHANGED <<files, stop_flag, target_mb, it, src, outcomes, shown,
                   snapshot>>
    /\ UNCHANGED imgVars

\* work(), line 336, and the end of the thread.
work_report ==
    /\ wpc = "reporting"
    /\ shown' = IF stop_flag THEN "Stopped by user." ELSE "Finished."
    /\ wpc' = "idle"
    /\ UNCHANGED <<files, stop_flag, btn_start, btn_stop, target_mb, it, src,
                   outcomes, snapshot>>
    /\ UNCHANGED imgVars

BatchNext ==
    \/ add_files
    \/ add_folder
    \/ clear_list
    \/ start
    \/ stop
    \/ work_next
    \/ process_one
    \/ work_buttons
    \/ work_report

BatchSpec == BatchInit /\ [][BatchNext]_vars

\* -------------------------------------------------------------- properties
Terminated == pc \in {"done", "raised"}
Returned == pc = "done"
\* The two outcomes of a returned run.
Accepted == Returned /\ result[1].len <= target_bytes
BestEffort == Returned /\ result[1].len > target_bytes
\* Smallest length a successful encode produced at the current resolution
\* (0: none): at full resolution the original-format attempt counts too.
CurMin == IF nResize = 0 THEN MinLen(firstLen, ladMin) ELSE ladMin
QualityLevels == {95, 90, 85, 80, 75, 70, 65, 60}

\* C1: whenever the budget is at least the smallest length some encode
\* produced at the resolution the run ended at (the resolution at which the
\* floor check stops the resizing), the run returns bytes within the budget.
C1_BudgetMetAtFloor ==
    (Terminated /\ CurMin # 0 /\ target_bytes >= CurMin) => Accepted
C1_Witness ==
    /\ Returned
    /\ nResize >= 1
    /\ FloorReached(w, h)
    /\ ladMin # 0
    /\ ladMin = target_bytes
    /\ result[1].len = target_bytes

\* C2: shrink_to_target never raises: every run ends with a returned pair.
C2_NeverRaises == pc # "raised"

\* C3: the returned extension names the container that encoded the returned
\* bytes.
C3_ExtensionMatchesContainer ==
    Returned => result[2] = ExtOf(result[1].fmt)

\* C4: an image with alpha never resolves to a .jpg result.
C4_AlphaNeverJpeg == (Returned /\ alpha) => result[2] # ".jpg"

\* C5: a BestEffort result is no longer than the first full-resolution
\* encode attempt.
C5_BestEffortNotAboveFirst ==
    (BestEffort /\ firstLen # 0) => result[1].len <= firstLen

\* Variant of the run: the sides of the working image, then the position
\* within the pass at one resolution. It is a natural number.
Measure ==
    (w + h) * 16 +
    (CASE pc = "exif" -> 12
       [] pc = "orig" -> 11
       [] pc \in {"ladder", "rladder"} -> 10 - qi
       [] pc = "loop" -> 1
       [] OTHER -> 0)

\* C6: every resize strictly decreases the width, the height and the pixel
\* count, and the run always ends: every step strictly decreases Measure,
\* a natural number, so no run takes infinitely many steps.
C6_ResizeShrinksAndTerminates ==
    [][/\ nResize' # nResize => (w' < w /\ h' < h /\ w' * h' < w * h)
       /\ Measure' < Measure
       /\ Measure' >= 0]_vars
C6_Witness == Terminated /\ nResize >= 2

\* C7: when the floor is reached over budget, the returned length is the
\* smallest length over all successful encodes of the whole run.
C7_FloorReturnsSmallestOfRun ==
    (BestEffort /\ FloorReached(w, h)) => result[1].len = minAll

\* C8: when a ladder ends with no level within the budget, the attempt handed
\* on (last, ext) is the smallest the ladder produced, with its own tag.
C8_LadderHandsBackSmallest ==
    (pc = "loop" /\ ladMin # 0) =>
        (last.len = ladMin /\ ext = ExtOf(last.fmt))

\* C9: an original-format attempt within the budget is returned at once,
\* with the extension of the original container, and no ladder encode and no
\* resize follows it.
C9_FirstAttemptReturnedAtOnce ==
    (firstLen # 0 /\ firstLen <= target_bytes) =>
        /\ Returned
        /\ result = <<Bytes(firstLen, OrigContainer(fmt)),
                      ExtOf(OrigContainer(fmt))>>
        /\ nEnc = 1
        /\ nResize = 0
C9_Witness ==
    /\ Returned
    /\ fmt = "PNG"
    /\ firstLen # 0
    /\ firstLen < target_bytes
    /\ result[2] = ".png"

\* C10: every ladder encode uses WEBP for images with alpha and JPEG
\* otherwise; a ladder starts at 95 and goes down by 5 to 60; no encode
\* follows an attempt within the budget, which is returned; a ladder that
\* ends without one has tried quality 60.
C10_QualityDescent ==
    [][(nEnc' # nEnc /\ call'.kind = "ladder") =>
          /\ call'.fmt = (IF alpha THEN "WEBP" ELSE "JPEG")
          /\ call'.q \in QualityLevels
          /\ call'.q = (IF call.kind = "orig" \/ call.q = 60
                        THEN 95 ELSE call.q - 5)
          /\ ~(call.len # 0 /\ call.len <= target_bytes)
          /\ (call'.len # 0 /\ call'.len <= target_bytes) =>
                /\ pc' = "done"
                /\ result' = <<Bytes(call'.len, call'.fmt), ExtOf(call'.fmt)>>
          /\ (pc' \notin {"ladder", "rladder", "done"}) => call'.q = 60
      ]_vars
C10_Witness ==
    /\ Returned
    /\ alpha
    /\ nResize = 1
    /\ call.kind = "ladder"
    /\ call.q = 75
    /\ result = <<Bytes(call.len, "WEBP"), ".webp">>

\* The format has no branch of its own in lines 81-93 (BMP, TIFF, GIF).
Native == fmt \notin {"JPEG", "JPG", "PNG", "WEBP"}

C12_FailedEncodeSkipped ==
    [][/\ (nEnc' # nEnc /\ call'.kind = "ladder" /\ call'.len = 0) =>
             /\ b' = b
             /\ best' = best
             /\ result' = result
             /\ minAll' = minAll
             /\ call'.q # 60 =>
                   (pc' = pc /\ last' = last /\ pc' \in {"ladder", "rladder"})
       /\ (nEnc' # nEnc /\ call.kind = "ladder" /\ call.len = 0
             /\ call.q # 60) =>
             /\ call'.kind = "ladder"
             /\ call'.q = call.q - 5
             /\ (call'.len # 0 /\ call'.len <= target_bytes) =>
                   (pc' = "done" /\ result'[1].len = call'.len)
      ]_vars
C12_Witness ==
    /\ pc = "rladder"
    /\ call.kind = "ladder"
    /\ call.q = 90
    /\ call.len = 0
    /\ best # NoBytes
    /\ qi = 3

\* C17: at the head of the resize loop, a working image with a side at or
\* below the floor is not resized and not encoded again: last is returned,
\* over budget; and no resize ever starts from such an image.
C17_FloorCheckFirst ==
    [][/\ (pc = "loop" /\ (w <= MinW \/ h <= MinH)) =>
             /\ pc' = "done"
             /\ result' = <<last, ext>>
             /\ result'[1].len > target_bytes
             /\ UNCHANGED <<w, h, nEnc, nResize>>
       /\ nResize' # nResize => (w > MinW /\ h > MinH)
      ]_vars
C17_Witness ==
    /\ BestEffort
    /\ nResize = 0
    /\ nEnc = 9
    /\ w = MinW
    /\ h = MaxDim

\* C18: the scale factor of every resize step lies in (0.5, 0.95] (its
\* square in (0.25, 0.9025]), the new sides are the old ones scaled by it
\* and clamped to the floor, and both sides get strictly smaller: no resize
\* upscales or keeps a dimension.
C18_FactorInRange ==
    [][nResize' # nResize =>
          LET f2 == FactorSq(target_bytes, last.len)
              Scaled(d) == CHOOSE n \in 0..d :
                  /\ BigLeq(BigMul(n * n, f2.den), BigMul(d * d, f2.num))
                  /\ ~BigLeq(BigMul((n + 1) * (n + 1), f2.den),
                             BigMul(d * d, f2.num))
          IN  /\ 4 * f2.num > f2.den
              /\ 10000 * f2.num <= 9025 * f2.den
              /\ w' = Max(MinW, Scaled(w))
              /\ h' = Max(MinH, Scaled(h))
              /\ w' < w
              /\ h' < h
      ]_vars

\* A resize whose factor was capped at 0.95 has happened.
C18_Witness ==
    /\ pc = "rladder"
    /\ nResize = 1
    /\ FactorCapped(target_bytes, last.len)
    /\ ~FactorLow(target_bytes, last.len)
    /\ h = (MaxDim * 95) \div 100

\* C19: after every resize step the new width and height are at least the
\* floor, and the forced 0.9 decrement is never what sets them.
C19_NeverBelowFloor ==
    [][nResize' # nResize =>
          /\ w' >= MinW
          /\ h' >= MinH
          /\ w' = Max(MinW, ScaledInt(w, target_bytes, last.len))
          /\ h' = Max(MinH, ScaledInt(h, target_bytes, last.len))
      ]_vars

\* A second resize has brought a side down to the floor by the clamp.
C19_Witness ==
    /\ pc = "rladder"
    /\ nResize = 2
    /\ w = MinW
    /\ h = MinH

\* The files of the outcome lines this run has written, in order.
Processed == [i \in 1..Len(outcomes) |-> outcomes[i].file]

\* C13: a failure while one image is processed never halts the batch: the
\* worker thread never dies in process_one, and whenever it is back at the
\* head of its loop every image it took has exactly one outcome line.
C13_BatchNeverHalts ==
    /\ wpc # "crashed"
    /\ wpc = "head" =>
          /\ Len(outcomes) = it
          /\ it > 0 => outcomes[it].file = src

\* C14: cancellation is at image granularity.  Stop only sets the flag; an
\* image being processed ends with its outcome line whatever the flag is;
\* no image is started with the flag set, the loop is left instead; the
\* flag stays set to the end of the run, which then reports the stop.
C14_CancelBetweenImages ==
    [][/\ stop_flag' # stop_flag =>
             UNCHANGED <<files, btn_start, btn_stop, wpc, target_mb, it, src,
                         outcomes, shown, snapshot>>
             \/ (wpc = "idle" /\ wpc' = "head" /\ ~stop_flag')
       /\ wpc = "processing" =>
             \/ UNCHANGED <<wpc, src, outcomes, it>>
             \/ /\ wpc' = "head"
                /\ Len(outcomes') = Len(outcomes) + 1
                /\ outcomes'[Len(outcomes')].file = src
                /\ SubSeq(outcomes', 1, Len(outcomes)) = outcomes
       /\ (wpc = "head" /\ wpc' = "processing") => ~stop_flag
       /\ (wpc = "head" /\ stop_flag /\ wpc' # wpc) =>
             (wpc' = "ending" /\ outcomes' = outcomes)
       /\ (wpc \in {"head", "processing", "ending", "reporting"} /\ stop_flag)
             => stop_flag'
       /\ (wpc = "reporting" /\ wpc' # wpc) =>
             /\ wpc' = "idle"
             /\ stop_flag => shown' = "Stopped by user."
      ]_vars

\* Stop was pressed while the first of two images was being processed: its
\* outcome is there, the second was never started, the stop is reported.
C14_Witness ==
    /\ wpc = "idle"
    /\ shown = "Stopped by user."
    /\ stop_flag
    /\ Len(snapshot) = 2
    /\ files = snapshot
    /\ Len(outcomes) = 1
    /\ outcomes[1].file = snapshot[1]

\* C15: the budget process_one hands to shrink_to_target is an integer
\* >= 1 for every target that passed the validation of start.
C15_BudgetAtLeastOne ==
    wpc = "processing" => target_bytes >= 1

\* C20: a run that ends without a stop has processed every file that was in
\* the list when Start was pressed, once each and in order, whatever was
\* added to or cleared from the list meanwhile.
C20_SnapshotProcessedOnce ==
    (wpc = "idle" /\ shown = "Finished." /\ ~stop_flag) =>
        /\ Len(outcomes) >= Len(snapshot)
        /\ SubSeq(Processed, 1, Len(snapshot)) = snapshot
====
